---- MODULE Spec2Model ----
(***************************************************************************)
(* A model of the FotoOwl library backend (src/app): the three tables of   *)
(* models.py and the request handlers of routes/router.py.                 *)
(*                                                                         *)
(* Strings are sequences of one-character strings, so that `"@" in email`  *)
(* and `len(password)` are computed as the code computes them.  Dates are  *)
(* days of January 2024 (2024-01-DD), compared as the store compares Date  *)
(* columns.  Row ids are positions in the table: rows are never deleted    *)
(* and ids are handed out in insertion order.                              *)
(*                                                                         *)
(* A call is handled by a worker with a session of its own.  The worker    *)
(* reads committed rows, keeps what it loaded and what it changed in its   *)
(* session, and writes at db.commit().  Every handler is cut at each of    *)
(* its accesses to the store; the code between two accesses touches only   *)
(* the session and belongs to the step of the access before it.  Spec      *)
(* handles one call at a time: a single worker takes a call through its    *)
(* steps before the next call begins.  SpecPar runs the steps of every     *)
(* handler on two workers in any order; SpecConc is the part of it the     *)
(* properties of concurrent approvals are about: the administrator's       *)
(* calls of approve_or_deny_request on a table of Pending requests.        *)
(*                                                                         *)
(* main.py creates the tables empty, and src has no insert path for books  *)
(* or for a first user: the store starts either as main.py left it or      *)
(* seeded from outside with one administrator and two books.               *)
(***************************************************************************)
EXTENDS Integers, Sequences, FiniteSets, TLC

VARIABLES
    users,      \* table "users": sequence of [email, password, is_admin]
    books,      \* table "books": book id -> copies_available
    requests,   \* table "borrow_requests": sequence of BorrowRequest rows
    response,   \* the HTTP response of the last call answered, with the status
                \* approve_or_deny_request loaded for the request ("prior");
                \* none once a later call has begun
    pc,         \* per worker: the step its call is at, "idle" between calls
    session,    \* per worker: the call's inputs and what its session holds
    approvals   \* history: per book, how many approve calls have answered 200

db == <<users, books, requests>>
workers == <<pc, session>>
vars == <<users, books, requests, response, pc, session, approvals>>

----------------------------------------------------------------------------
(* Bounds of the model *)

MaxRequests == 2
MaxUsers == 3

----------------------------------------------------------------------------
(* Input pools *)

AdminEmail == <<"a", "@", "l">>
UserEmail == <<"u", "@", "l">>
BadEmail == <<"u", "l">>

Secret == <<"s", "e", "c", "r", "e", "t">>
Short == <<"s", "h", "o", "r", "t">>

\* bodies of POST /admin/users
EmailPool == {AdminEmail, UserEmail, BadEmail}
PasswordPool == {Secret, Short}

\* HTTPBasicCredentials, <<username, password>>: the admin, the admin's email
\* with a wrong password, and an email that is unknown until the admin
\* creates that user
Credentials ==
    {<<AdminEmail, Secret>>, <<AdminEmail, Short>>, <<UserEmail, Secret>>}

\* <<start_date, end_date>> in days of January 2024: two ranges that overlap,
\* and one that shares only its first day with the second
DateRanges == {<<1, 10>>, <<5, 15>>, <<15, 15>>}

BookA == 1
BookB == 2
\* book ids a client may name; the last one is no row of "books"
BookIdPool == {BookA, BookB, 3}

Workers == {1, 2}

ActionPool == {"approve", "deny", "cancel"}

RequestIdPool == 1..(MaxRequests + 1)
UserIdPool == 1..(MaxUsers + 1)

----------------------------------------------------------------------------
(* The store at start-up *)

NoResponse == [op |-> "none", code |-> 0, detail |-> "", prior |-> "none"]

\* a worker between calls: no inputs, nothing loaded
NoSession ==
    [op |-> "none", credentials |-> << >>, email |-> << >>, password |-> << >>,
     book_id |-> 0, start_date |-> 0, end_date |-> 0, request_id |-> 0,
     action |-> "none", user_id |-> 0, current_user |-> 0, prior |-> "none",
     copies_available |-> 0]

\* the seeded rows: one administrator, and two books with 1 and 2 copies
InitialUsers == << [email |-> AdminEmail, password |-> Secret, is_admin |-> TRUE] >>
InitialBooks == (BookA :> 1) @@ (BookB :> 2)

\* the tables as create_all leaves them, or with the seeded rows
Init ==
    /\ \/ users = << >> /\ books = << >>
       \/ users = InitialUsers /\ books = InitialBooks
    /\ requests = << >>
    /\ response = NoResponse
    /\ pc = [w \in Workers |-> "idle"]
    /\ session = [w \in Workers |-> NoSession]
    /\ approvals = [b \in DOMAIN books |-> 0]

----------
(* Helpers: the queries and tests of router.py *)

\* `x in s` for a one-character x
Contains(s, x) == \E i \in 1..Len(s) : s[i] = x

\* db.query(User).filter(User.email == email).first(): the id of the first
\* such row, 0 (None) when there is none
UserByEmail(email) ==
    IF \E i \in 1..Len(users) : users[i].email = email
    THEN CHOOSE i \in 1..Len(users) :
            /\ users[i].email = email
            /\ \A j \in 1..(i - 1) : users[j].email # email
    ELSE 0

\* faulty variant: authentication that never compares the password
get_current_user_any_password(credentials) == UserByEmail(credentials[1])

\* get_current_user: the authenticated user's id, 0 when it raises 401
get_current_user(credentials) ==
    LET user == UserByEmail(credentials[1]) IN
    IF user = 0 \/ users[user].password # credentials[2] THEN 0 ELSE user

\* faulty variant: the date conditions with strict comparisons
DatesOverlapStrict(existing, start_date, end_date) ==
    /\ existing.start_date < end_date
    /\ existing.end_date > start_date

\* the two date conditions of the overlap filter, for a stored row
DatesOverlap(existing, start_date, end_date) ==
    /\ existing.start_date <= end_date
    /\ existing.end_date >= start_date

\* faulty variant: the overlap query with the stored interval tested against the new
\* start date alone
OverlappingStartOnly(book_id, start_date, end_date) ==
    \E i \in 1..Len(requests) :
        /\ requests[i].book_id = book_id
        /\ requests[i].status = "Approved"
        /\ requests[i].start_date <= start_date
        /\ requests[i].end_date >= start_date

\* faulty variant: the overlap query without its status filter
OverlappingAnyStatus(book_id, start_date, end_date) ==
    \E i \in 1..Len(requests) :
        /\ requests[i].book_id = book_id
        /\ DatesOverlap(requests[i], start_date, end_date)

\* the overlap query: .filter(book_id, status == "Approved", dates).first()
\* seen as a truth value
Overlapping(book_id, start_date, end_date) ==
    \E i \in 1..Len(requests) :
        /\ requests[i].book_id = book_id
        /\ requests[i].status = "Approved"
        /\ DatesOverlap(requests[i], start_date, end_date)

\* faulty variant: the admin test passing every authenticated user
is_admin_anyone(current_user) == TRUE

\* the admin test of the admin handlers, for an authenticated user id
is_admin(current_user) == users[current_user].is_admin

\* faulty variant: the length test refusing a password of exactly 6 characters
PasswordTooShortOffByOne(password) == Len(password) <= 6

\* create_user's test of the password's length
PasswordTooShort(password) == Len(password) < 6

\* faulty variant: the availability test letting a counter of 0 through
NoCopiesNegative(copies_available) == copies_available < 0

\* faulty variant: the availability test refusing at exactly 0 only
NoCopiesZeroOnly(copies_available) == copies_available = 0

\* submit_request's availability test
NoCopies(copies_available) == copies_available <= 0

\* faulty variant: the status guard stopping Denied requests only
AlreadyProcessedDeniedOnly(status) == status = "Denied"

\* approve's guard on the request's status
AlreadyProcessed(status) == status # "Pending"

\* faulty variant: every action string accepted
ValidActionAny(action) == TRUE

\* the action strings the handler accepts
ValidAction(action) == action \in {"approve", "deny"}

\* faulty variant: a new user row that is an administrator
NewUserAdmin(email, password) ==
    [email |-> email, password |-> password, is_admin |-> TRUE]

\* line 80: User(email=..., password=...), is_admin by the column's default
NewUser(email, password) ==
    [email |-> email, password |-> password, is_admin |-> FALSE]

\* faulty variant: a new request row with its two dates exchanged
NewBorrowRequestSwapped(user_id, book_id, start_date, end_date) ==
    [user_id |-> user_id, book_id |-> book_id, start_date |-> end_date,
     end_date |-> start_date, status |-> "Pending"]

\* lines 294-299: BorrowRequest(...), status by the column's default
NewBorrowRequest(user_id, book_id, start_date, end_date) ==
    [user_id |-> user_id, book_id |-> book_id, start_date |-> start_date,
     end_date |-> end_date, status |-> "Pending"]

----------------------------------------------------------------------------
(* Calls: the inputs a client sends, as the session a worker starts with *)

\* POST /admin/users
create_user(credentials, email, password) ==
    [NoSession EXCEPT !.op = "create_user", !.credentials = credentials,
                      !.email = email, !.password = password]

\* POST /requests
submit_request(credentials, book_id, start_date, end_date) ==
    [NoSession EXCEPT !.op = "submit_request", !.credentials = credentials,
                      !.book_id = book_id, !.start_date = start_date,
                      !.end_date = end_date]

\* POST /admin/requests/{request_id}?action=...
approve_or_deny_request(credentials, request_id, action) ==
    [NoSession EXCEPT !.op = "approve_or_deny_request",
                      !.credentials = credentials,
                      !.request_id = request_id, !.action = action]

\* GET /admin/requests
view_borrow_requests(credentials) ==
    [NoSession EXCEPT !.op = "view_borrow_requests", !.credentials = credentials]

\* GET /admin/users/{user_id}/history
view_user_history(credentials, user_id) ==
    [NoSession EXCEPT !.op = "view_user_history", !.credentials = credentials,
                      !.user_id = user_id]

\* GET /books
get_books(credentials) ==
    [NoSession EXCEPT !.op = "get_books", !.credentials = credentials]

\* GET /history
view_personal_history(credentials) ==
    [NoSession EXCEPT !.op = "view_personal_history", !.credentials = credentials]

\* GET /download-history
download_history(credentials) ==
    [NoSession EXCEPT !.op = "download_history", !.credentials = credentials]

\* the handlers that test current_user.is_admin
AdminOps ==
    {"create_user", "approve_or_deny_request", "view_borrow_requests",
     "view_user_history"}

ReadOnlyOps ==
    {"view_borrow_requests", "view_user_history", "get_books",
     "view_personal_history", "download_history"}

Calls ==
    {create_user(c, e, p) : c \in Credentials, e \in EmailPool, p \in PasswordPool}
    \cup {submit_request(c, b, d[1], d[2]) :
             c \in Credentials, b \in BookIdPool, d \in DateRanges}
    \cup {approve_or_deny_request(c, r, a) :
             c \in Credentials, r \in RequestIdPool, a \in ActionPool}
    \cup {view_borrow_requests(c) : c \in Credentials}
    \cup {view_user_history(c, u) : c \in Credentials, u \in UserIdPool}
    \cup {get_books(c) : c \in Credentials}
    \cup {view_personal_history(c) : c \in Credentials}
    \cup {download_history(c) : c \in Credentials}

----------------------------------------------------------------------------
(* Answers *)

\* worker w answers and its session is closed
Answer(w, op, prior, code, detail) ==
    /\ response' = [op |-> op, code |-> code, detail |-> detail, prior |-> prior]
    /\ pc' = [pc EXCEPT ![w] = "idle"]
    /\ session' = [session EXCEPT ![w] = NoSession]

\* a raised HTTPException: the session is dropped, no table changes
Raise(w, prior, code, detail) ==
    /\ Answer(w, session[w].op, prior, code, detail)
    /\ UNCHANGED db
    /\ UNCHANGED approvals

\* lines 33-38: get_current_user raises before the handler runs
Unauthorized(w) ==
    /\ Answer(w, "get_current_user", "none", 401, "Invalid email or password")
    /\ UNCHANGED db
    /\ UNCHANGED approvals

Forbidden(w) == Raise(w, "none", 403, "Access denied")

\* a handler that returns normally
Return(w, prior, code, detail) == Answer(w, session[w].op, prior, code, detail)

\* worker w goes on to its next access to the store, with `mine` in its session
Goto(w, step, mine) ==
    /\ pc' = [pc EXCEPT ![w] = step]
    /\ session' = [session EXCEPT ![w] = mine]
    /\ UNCHANGED <<db, response, approvals>>

----------------------------------------------------------------------------
(* The steps of a call, one for each access to the store *)

\* an idle worker takes a call
begin(w, call) ==
    /\ pc[w] = "idle"
    /\ pc' = [pc EXCEPT ![w] = "get_current_user"]
    /\ session' = [session EXCEPT ![w] = call]
    /\ response' = NoResponse
    /\ UNCHANGED <<db, approvals>>

\* line 32, the query of get_current_user, and what the handler does before
\* its own first query: the admin test (lines 63, 148 and the like) and
\* create_user's tests of the body (lines 68-74)
authenticate(w) ==
    LET mine == session[w]
        current_user == get_current_user(mine.credentials)
    IN
    /\ pc[w] = "get_current_user"
    /\ IF current_user = 0 THEN Unauthorized(w)
       ELSE IF mine.op \in AdminOps /\ ~is_admin(current_user) THEN Forbidden(w)
       ELSE IF mine.op = "create_user" /\ ~Contains(mine.email, "@")
            THEN Raise(w, "none", 400, "Invalid email format")
       ELSE IF mine.op = "create_user" /\ PasswordTooShort(mine.password)
            THEN Raise(w, "none", 400, "Password must be at least 6 characters")
       ELSE Goto(w, mine.op, [mine EXCEPT !.current_user = current_user])

\* create_user, lines 76-78: the query for a user with the new email
existing_user(w) ==
    /\ pc[w] = "create_user"
    /\ IF UserByEmail(session[w].email) # 0
       THEN Raise(w, "none", 400, "User already exists")
       ELSE Goto(w, "add_user", session[w])

\* create_user, lines 80-85: the insert and its commit; the unique index on
\* users.email (models.py line 9) fails the commit when the email was taken
\* in the meantime, and the unhandled IntegrityError is answered 500
add_user(w) ==
    /\ pc[w] = "add_user"
    /\ IF UserByEmail(session[w].email) # 0
       THEN Raise(w, "none", 500, "Internal Server Error")
       ELSE /\ Len(users) < MaxUsers
            /\ users' = Append(users, NewUser(session[w].email, session[w].password))
            /\ UNCHANGED <<books, requests, approvals>>
            /\ Return(w, "none", 201, "User created successfully")

\* submit_request, lines 272-277: the book is loaded and its counter tested
find_book(w) ==
    /\ pc[w] = "submit_request"
    /\ IF session[w].book_id \notin DOMAIN books
       THEN Raise(w, "none", 404, "Book not found")
       ELSE IF NoCopies(books[session[w].book_id])
            THEN Raise(w, "none", 400, "No copies available")
       ELSE Goto(w, "find_overlapping", session[w])

\* submit_request, lines 279-292: the overlap query
find_overlapping(w) ==
    /\ pc[w] = "find_overlapping"
    /\ IF Overlapping(session[w].book_id, session[w].start_date,
                      session[w].end_date)
       THEN Raise(w, "none", 400, "Book already borrowed during this period")
       ELSE Goto(w, "add_request", session[w])

\* submit_request, lines 294-306: the insert and its commit
add_request(w) ==
    /\ pc[w] = "add_request"
    /\ Len(requests) < MaxRequests
    /\ requests' = Append(requests,
            NewBorrowRequest(session[w].current_user, session[w].book_id,
                             session[w].start_date, session[w].end_date))
    /\ UNCHANGED <<users, books, approvals>>
    /\ Return(w, "none", 201, "Request submitted successfully")

\* faulty variant: the deny branch behind the status guard of the approve branch
find_request_deny_guarded(w) ==
    LET mine == session[w] IN
    /\ pc[w] = "approve_or_deny_request"
    /\ IF mine.request_id \notin 1..Len(requests)
       THEN Raise(w, "none", 404, "Request not found")
       ELSE LET prior == requests[mine.request_id].status IN
            IF ~ValidAction(mine.action)
            THEN Raise(w, prior, 400, "Invalid action")
            ELSE IF AlreadyProcessed(prior)
            THEN Raise(w, prior, 400, "Request already processed")
            ELSE Goto(w, IF mine.action = "approve" THEN "check_overlapping"
                         ELSE "commit",
                      [mine EXCEPT !.prior = prior])

\* approve_or_deny_request, lines 153-164 and 186-187: the request is loaded;
\* the action and, for approve, the loaded status are tested; deny sets the
\* status in the session
find_request(w) ==
    LET mine == session[w] IN
    /\ pc[w] = "approve_or_deny_request"
    /\ IF mine.request_id \notin 1..Len(requests)
       THEN Raise(w, "none", 404, "Request not found")
       ELSE LET prior == requests[mine.request_id].status IN
            IF ~ValidAction(mine.action)
            THEN Raise(w, prior, 400, "Invalid action")
            ELSE IF mine.action = "approve" /\ AlreadyProcessed(prior)
            THEN Raise(w, prior, 400, "Request already processed")
            ELSE Goto(w, IF mine.action = "approve" THEN "check_overlapping"
                         ELSE "commit",
                      [mine EXCEPT !.prior = prior])

\* approve, lines 166-179: the overlap query, with the book and the dates of
\* the loaded request
check_overlapping(w) ==
    LET borrow_request == requests[session[w].request_id] IN
    /\ pc[w] = "check_overlapping"
    /\ IF Overlapping(borrow_request.book_id, borrow_request.start_date,
                      borrow_request.end_date)
       THEN Raise(w, session[w].prior, 400,
                  "Book already borrowed during this period")
       ELSE Goto(w, "read_book", session[w])

\* faulty variant: an approve that refuses when no copy is left
read_book_floor_checked(w) ==
    LET book_id == requests[session[w].request_id].book_id IN
    /\ pc[w] = "read_book"
    /\ IF NoCopies(books[book_id])
       THEN Raise(w, session[w].prior, 400, "No copies available")
       ELSE Goto(w, "commit",
                 [session[w] EXCEPT !.copies_available = books[book_id] - 1])

\* approve, lines 181-184: the status is set in the session, the book is
\* loaded and its counter lowered in the session
read_book(w) ==
    LET book_id == requests[session[w].request_id].book_id IN
    /\ pc[w] = "read_book"
    /\ Goto(w, "commit",
            [session[w] EXCEPT !.copies_available =
                IF book_id \in DOMAIN books THEN books[book_id] - 1 ELSE 0])

\* what db.commit() writes of the request: the status set in the session,
\* when it differs from the loaded one
Flushed(mine) ==
    IF mine.action = "approve" THEN "Approved"
    ELSE IF mine.prior = "Denied" THEN requests[mine.request_id].status
    ELSE "Denied"

\* faulty variant: a commit that runs the overlap query again and gives up on a hit
commit_rechecked(w) ==
    LET mine == session[w]
        row == requests[mine.request_id]
    IN
    /\ pc[w] = "commit"
    /\ IF mine.action = "approve"
          /\ Overlapping(row.book_id, row.start_date, row.end_date)
       THEN Raise(w, mine.prior, 400, "Book already borrowed during this period")
       ELSE /\ requests' = [requests EXCEPT ![mine.request_id].status = Flushed(mine)]
            /\ books' = IF mine.action = "approve" /\ row.book_id \in DOMAIN books
                        THEN [books EXCEPT ![row.book_id] = mine.copies_available]
                        ELSE books
            /\ approvals' = IF mine.action = "approve"
                            THEN [approvals EXCEPT ![row.book_id] = @ + 1]
                            ELSE approvals
            /\ UNCHANGED users
            /\ Return(w, mine.prior, 200,
                      IF mine.action = "approve" THEN "Request approved successfully"
                      ELSE "Request denyd successfully")

\* faulty variant: a commit that gives the copy back on deny
commit_refunding(w) ==
    LET mine == session[w]
        book_id == requests[mine.request_id].book_id
    IN
    /\ pc[w] = "commit"
    /\ requests' = [requests EXCEPT ![mine.request_id].status = Flushed(mine)]
    /\ books' = IF mine.action = "approve"
                THEN [books EXCEPT ![book_id] = mine.copies_available]
                ELSE [books EXCEPT ![book_id] = @ + 1]
    /\ approvals' = IF mine.action = "approve"
                    THEN [approvals EXCEPT ![book_id] = @ + 1]
                    ELSE approvals
    /\ UNCHANGED users
    /\ Return(w, mine.prior, 200,
              IF mine.action = "approve" THEN "Request approved successfully"
              ELSE "Request denyd successfully")

\* approve_or_deny_request, lines 189-190: db.commit() writes what the
\* session changed, a counter as the session computed it, and the call answers
commit(w) ==
    LET mine == session[w]
        book_id == requests[mine.request_id].book_id
    IN
    /\ pc[w] = "commit"
    /\ requests' = [requests EXCEPT ![mine.request_id].status = Flushed(mine)]
    /\ books' = IF mine.action = "approve" /\ book_id \in DOMAIN books
                THEN [books EXCEPT ![book_id] = mine.copies_available]
                ELSE books
    /\ approvals' = IF mine.action = "approve"
                    THEN [approvals EXCEPT ![book_id] = @ + 1]
                    ELSE approvals
    /\ UNCHANGED users
    /\ Return(w, mine.prior, 200,
              IF mine.action = "approve" THEN "Request approved successfully"
              ELSE "Request denyd successfully")

\* the read-only handlers: their queries, written nowhere; view_user_history
\* answers 404 when its user is missing
read_only(w) ==
    /\ pc[w] \in ReadOnlyOps
    /\ IF session[w].op = "view_user_history"
          /\ session[w].user_id \notin 1..Len(users)
       THEN Raise(w, "none", 404, "User not found")
       ELSE /\ Return(w, "none", 200, "")
            /\ UNCHANGED <<db, approvals>>

----------------------------------------------------------------------------
(* One call at a time: a single worker *)

Begin(w) == \E call \in Calls : begin(w, call)

Step(w) ==
    \/ Begin(w)
    \/ authenticate(w)
    \/ existing_user(w)
    \/ add_user(w)
    \/ find_book(w)
    \/ find_overlapping(w)
    \/ add_request(w)
    \/ find_request(w)
    \/ check_overlapping(w)
    \/ read_book(w)
    \/ commit(w)
    \/ read_only(w)

Next == Step(1)

Spec == Init /\ [][Next]_vars

----------------------------------------------------------------------------
(* approve_or_deny_request handled by two workers at once *)

\* the rows submit_request inserts for the admin
PendingRows ==
    { [user_id |-> 1, book_id |-> b, start_date |-> d[1], end_date |-> d[2],
       status |-> "Pending"] : b \in DOMAIN InitialBooks, d \in DateRanges }

\* the seeded store after MaxRequests accepted submits, no worker running
InitConc ==
    /\ users = InitialUsers
    /\ books = InitialBooks
    /\ requests \in [1..MaxRequests -> PendingRows]
    /\ response = NoResponse
    /\ pc = [w \in Workers |-> "idle"]
    /\ session = [w \in Workers |-> NoSession]
    /\ approvals = [b \in DOMAIN InitialBooks |-> 0]

\* the calls of the administrator
ConcCalls ==
    {approve_or_deny_request(<<AdminEmail, Secret>>, r, a) :
        r \in RequestIdPool, a \in ActionPool}

BeginConc(w) == \E call \in ConcCalls : begin(w, call)

NextConc ==
    \E w \in Workers :
        \/ BeginConc(w)
        \/ authenticate(w)
        \/ find_request(w)
        \/ check_overlapping(w)
        \/ read_book(w)
        \/ commit(w)

SpecConc == InitConc /\ [][NextConc]_vars

----------------------------------------------------------------------------
(* Every handler handled by two workers at once *)

NextPar == \E w \in Workers : Step(w)

SpecPar == Init /\ [][NextPar]_vars

----------------------------------------------------------------------------
(* Vocabulary of the properties *)

\* the caller's credentials are those of a stored user
Authenticates(c) ==
    \E i \in 1..Len(users) : users[i].email = c[1] /\ users[i].password = c[2]

AuthenticatesAsAdmin(c) ==
    \E i \in 1..Len(users) :
        users[i].email = c[1] /\ users[i].password = c[2] /\ users[i].is_admin

AuthenticatesAsUser(c) ==
    \E i \in 1..Len(users) :
        users[i].email = c[1] /\ users[i].password = c[2] /\ ~users[i].is_admin

\* the call a session was started with
Inputs(mine) ==
    [mine EXCEPT !.current_user = 0, !.prior = "none", !.copies_available = 0]

\* this step answers the call that worker w is handling
Ends(w) == pc[w] # "idle" /\ pc'[w] = "idle"

\* this step answers `call`, handled by worker w.  With one call at a time
\* the tables are, before this step, as they were when the call began: see
\* OnlyAnswersWrite
Answered(w, call) == Ends(w) /\ Inputs(session[w]) = call

\* a step that answers no call writes to no table
OnlyAnswersWrite == (\A w \in Workers : ~Ends(w)) => UNCHANGED db

\* two rows whose date intervals overlap
IntervalsOverlap(a, b) == a.start_date <= b.end_date /\ a.end_date >= b.start_date

\* request r conflicts with an Approved request for the same book
ConflictsWithApproved(r) ==
    \E j \in 1..Len(requests) :
        /\ requests[j].book_id = requests[r].book_id
        /\ requests[j].status = "Approved"
        /\ IntervalsOverlap(requests[j], requests[r])

OverlapError(r) ==
    /\ r.code = 400
    /\ r.detail = "Book already borrowed during this period"

NoCopiesError(r) == r.code = 400 /\ r.detail = "No copies available"

----------------------------------------------------------------------------
(* C1: under one-at-a-time submit, approve and deny, any two distinct      *)
(* Approved requests for the same book have non-overlapping intervals.     *)
C1_ApprovedNeverOverlap ==
    \A i, j \in 1..Len(requests) :
        ( /\ i # j
          /\ requests[i].status = "Approved"
          /\ requests[j].status = "Approved"
          /\ requests[i].book_id = requests[j].book_id )
        => ~IntervalsOverlap(requests[i], requests[j])

\* two Approved requests for one book exist
C1_Witness ==
    \E i, j \in 1..Len(requests) :
        /\ i # j
        /\ requests[i].status = "Approved"
        /\ requests[j].status = "Approved"
        /\ requests[i].book_id = requests[j].book_id

----------------------------------------------------------------------------
(* The scenario of C2: book A has one copy, [2024-01-01, 2024-01-10] was   *)
(* requested for it and approved.                                          *)

FirstApproved ==
    /\ Len(requests) >= 1
    /\ requests[1].book_id = BookA
    /\ requests[1].start_date = 1
    /\ requests[1].end_date = 10
    /\ requests[1].status = "Approved"
    /\ books[BookA] = 0

\* the second request of the scenario, submitted before the approval
SecondPending ==
    /\ Len(requests) = 2
    /\ requests[2].book_id = BookA
    /\ requests[2].start_date = 5
    /\ requests[2].end_date = 15
    /\ requests[2].status = "Pending"

(* C2 as stated: after the approval, a submit of [2024-01-05, 2024-01-15]  *)
(* for book A succeeds and creates a Pending request.                      *)
C2_SubmitAfterApprovalSucceeds ==
    [][ \A w \in Workers : Ends(w) =>
        \A c \in Credentials :
          ( /\ FirstApproved
            /\ Len(requests) = 1
            /\ Authenticates(c)
            /\ Answered(w, submit_request(c, BookA, 5, 15)) )
          => /\ response'.code = 201
             /\ Len(requests') = 2
             /\ requests'[2].status = "Pending" ]_vars

(* C2, amended: after the approval, the submit of [2024-01-05, 2024-01-15] *)
(* for book A fails with the no-copies error and creates no request; when  *)
(* that request was submitted before the approval, it is Pending, and the  *)
(* admin's attempt to approve it fails with the overlap error and leaves   *)
(* it Pending.                                                             *)
C2_ScenarioAmended ==
    [][ \A w \in Workers : Ends(w) =>
        \A c \in Credentials :
          /\ ( /\ FirstApproved
               /\ Authenticates(c)
               /\ Answered(w, submit_request(c, BookA, 5, 15)) )
             => /\ NoCopiesError(response')
                /\ UNCHANGED db
          /\ ( /\ FirstApproved
               /\ SecondPending
               /\ AuthenticatesAsAdmin(c)
               /\ Answered(w, approve_or_deny_request(c, 2, "approve")) )
             => /\ OverlapError(response')
                /\ requests'[2].status = "Pending"
                /\ UNCHANGED db ]_vars

\* the scenario's end: the first request Approved, no copy left, the second
\* still Pending after its approval was refused
C2_Witness ==
    /\ FirstApproved
    /\ SecondPending
    /\ response.op = "approve_or_deny_request"
    /\ response.prior = "Pending"
    /\ OverlapError(response)

----------------------------------------------------------------------------
(* C3: a request's status changes only from Pending to Approved or to      *)
(* Denied; Approved and Denied are final, and no request is ever deleted.  *)
C3_StatusOnlyLeavesPending ==
    [][ \A i \in 1..Len(requests) :
          /\ i <= Len(requests')
          /\ requests'[i].status # requests[i].status
             => /\ requests[i].status = "Pending"
                /\ requests'[i].status \in {"Approved", "Denied"} ]_vars

----------------------------------------------------------------------------
(* C4: approve of a Pending request that overlaps an Approved request for  *)
(* the same book fails with the overlap error and changes no table.        *)
C4_OverlappingApproveFails ==
    [][ \A w \in Workers : Ends(w) =>
        \A c \in Credentials, r \in RequestIdPool :
          ( /\ AuthenticatesAsAdmin(c)
            /\ r \in 1..Len(requests)
            /\ requests[r].status = "Pending"
            /\ ConflictsWithApproved(r)
            /\ Answered(w, approve_or_deny_request(c, r, "approve")) )
          => /\ OverlapError(response')
             /\ UNCHANGED db ]_vars

\* an approve was refused for overlap, and the refused request is there:
\* Pending, in conflict with an Approved one
C4_Witness ==
    /\ response.op = "approve_or_deny_request"
    /\ OverlapError(response)
    /\ \E r \in 1..Len(requests) :
          requests[r].status = "Pending" /\ ConflictsWithApproved(r)

----------------------------------------------------------------------------
(* C5: for an authenticated caller and an existing book with               *)
(* copies_available = 0, submit fails with 400 "No copies available" and   *)
(* creates no request, whatever the dates.                                 *)
C5_SubmitWithoutCopiesFails ==
    [][ \A b \in BookIdPool :
          (b \in DOMAIN books /\ books[b] = 0)
          => \A w \in Workers : Ends(w) =>
                \A c \in Credentials, d \in DateRanges :
                (Authenticates(c) /\ Answered(w, submit_request(c, b, d[1], d[2])))
                => /\ NoCopiesError(response')
                   /\ requests' = requests ]_vars

\* a submit was refused for a book whose counter is 0
C5_Witness ==
    /\ response.op = "submit_request"
    /\ NoCopiesError(response)
    /\ \E b \in DOMAIN books : books[b] = 0

----------------------------------------------------------------------------
(* C6: with the handler cut at its accesses to the store, two workers can  *)
(* both pass the overlap query for overlapping Pending requests on one     *)
(* book before either commits.  A worker past the query commits Approved   *)
(* even when a different, overlapping request for the same book was        *)
(* Approved in the meantime, which leaves two overlapping Approved         *)
(* requests for that book.                                                 *)
C6_CheckedApproveCommitsOverConflict ==
    [][ \A w \in Workers :
          ( /\ pc[w] = "commit"
            /\ session[w].action = "approve"
            /\ \E j \in 1..Len(requests) :
                  /\ j # session[w].request_id
                  /\ requests[j].book_id = requests[session[w].request_id].book_id
                  /\ requests[j].status = "Approved"
                  /\ IntervalsOverlap(requests[j], requests[session[w].request_id])
            /\ commit(w) )
          => /\ requests'[session[w].request_id].status = "Approved"
             /\ response'.code = 200
             /\ ~C1_ApprovedNeverOverlap' ]_vars

\* both workers are back, and two Approved requests for one book overlap
C6_Witness ==
    /\ \A w \in Workers : pc[w] = "idle"
    /\ \E i, j \in 1..Len(requests) :
          /\ i # j
          /\ requests[i].status = "Approved"
          /\ requests[j].status = "Approved"
          /\ requests[i].book_id = requests[j].book_id
          /\ IntervalsOverlap(requests[i], requests[j])

----------------------------------------------------------------------------
(* C7: a deny of a request that is already Denied succeeds, leaves it      *)
(* Denied, and changes no counter and no other request.                    *)
C7_SecondDenySucceeds ==
    [][ \A w \in Workers : Ends(w) =>
        \A c \in Credentials, r \in RequestIdPool :
          ( /\ AuthenticatesAsAdmin(c)
            /\ r \in 1..Len(requests)
            /\ requests[r].status = "Denied"
            /\ Answered(w, approve_or_deny_request(c, r, "deny")) )
          => /\ response'.code = 200
             /\ response'.detail = "Request denyd successfully"
             /\ requests'[r].status = "Denied"
             /\ UNCHANGED db ]_vars

\* a deny has succeeded on a request it found Denied
C7_Witness ==
    /\ response.op = "approve_or_deny_request"
    /\ response.code = 200
    /\ response.detail = "Request denyd successfully"
    /\ response.prior = "Denied"

----------------------------------------------------------------------------
(* Vocabulary of C8 *)

EmailTaken(email) == \E i \in 1..Len(users) : users[i].email = email

HasAt(email) == \E i \in DOMAIN email : email[i] = "@"

UniqueEmails ==
    \A i, j \in 1..Len(users) : users[i].email = users[j].email => i = j

\* exactly one user was added, with this email and password, and can log in
OneUserAdded(email, password) ==
    /\ Len(users') = Len(users) + 1
    /\ SubSeq(users', 1, Len(users)) = users
    /\ users'[Len(users')].email = email
    /\ users'[Len(users')].password = password
    /\ get_current_user(<<email, password>>)' = Len(users')

(* C8 as stated: for an admin, create_user with a taken email fails with   *)
(* 400 "User already exists" and adds no user; with a new email containing *)
(* "@" and a password of 6 or more characters it succeeds and adds one     *)
(* user who can log in; no two users share an email.                       *)
C8_TakenEmailAlwaysUserExists ==
    [][ \A w \in Workers : Ends(w) =>
        \A c \in Credentials, e \in EmailPool, p \in PasswordPool :
          (AuthenticatesAsAdmin(c) /\ Answered(w, create_user(c, e, p)))
          => /\ EmailTaken(e)
                => /\ response'.code = 400
                   /\ response'.detail = "User already exists"
                   /\ users' = users
             /\ (~EmailTaken(e) /\ HasAt(e) /\ Len(p) >= 6)
                => /\ response'.code = 201
                   /\ OneUserAdded(e, p)
             /\ UniqueEmails' ]_vars

(* C8, amended: with a taken email create_user fails with a 400 error and  *)
(* adds no user; the error is "User already exists" when the email has an  *)
(* "@" and the password 6 or more characters, and the format or length     *)
(* error otherwise.  The rest as stated.                                   *)
C8_CreateUser ==
    [][ \A w \in Workers : Ends(w) =>
        \A c \in Credentials, e \in EmailPool, p \in PasswordPool :
          (AuthenticatesAsAdmin(c) /\ Answered(w, create_user(c, e, p)))
          => /\ EmailTaken(e)
                => /\ response'.code = 400
                   /\ (HasAt(e) /\ Len(p) >= 6)
                      => response'.detail = "User already exists"
                   /\ ~(HasAt(e) /\ Len(p) >= 6)
                      => response'.detail \in
                            {"Invalid email format",
                             "Password must be at least 6 characters"}
                   /\ users' = users
             /\ (~EmailTaken(e) /\ HasAt(e) /\ Len(p) >= 6)
                => /\ response'.code = 201
                   /\ OneUserAdded(e, p)
             /\ UniqueEmails' ]_vars

\* a user was created, and a later create_user with a taken email refused
C8_Witness ==
    /\ Len(users) = 2
    /\ users[2].email = UserEmail
    /\ ~users[2].is_admin
    /\ response.op = "create_user"
    /\ response.code = 400
    /\ response.detail = "User already exists"

----------------------------------------------------------------------------
(* C9: create_user and approve_or_deny_request called by an authenticated  *)
(* non-admin fail with 403 and change no table, whatever the arguments.    *)
C9_NonAdminForbidden ==
    [][ \A w \in Workers : Ends(w) =>
        \A c \in Credentials :
          AuthenticatesAsUser(c)
          => /\ \A e \in EmailPool, p \in PasswordPool :
                   Answered(w, create_user(c, e, p))
                   => response'.code = 403 /\ UNCHANGED db
             /\ \A r \in RequestIdPool, a \in ActionPool :
                   Answered(w, approve_or_deny_request(c, r, a))
                   => response'.code = 403 /\ UNCHANGED db ]_vars

\* a non-admin exists, a Pending request exists, and the last call, to
\* approve_or_deny_request, was refused with 403
C9_Witness ==
    /\ \E i \in 1..Len(users) : ~users[i].is_admin
    /\ \E r \in 1..Len(requests) : requests[r].status = "Pending"
    /\ response.op = "approve_or_deny_request"
    /\ response.code = 403

----------------------------------------------------------------------------
(* C10: a call of any operation whose email matches no user, or whose      *)
(* password is not that user's, fails with 401, in the step of             *)
(* get_current_user, and changes no table.                                 *)
C10_BadCredentialsUnauthorized ==
    [][ \A w \in Workers :
          (Ends(w) /\ ~Authenticates(session[w].credentials))
          => /\ pc[w] = "get_current_user"
             /\ response'.code = 401
             /\ response'.detail = "Invalid email or password"
             /\ UNCHANGED db ]_vars

\* the created user exists, so the refused credentials were the admin's
\* email with a wrong password
C10_Witness ==
    /\ Len(users) = 2
    /\ response.code = 401
    /\ response.op = "get_current_user"

----------------------------------------------------------------------------
(* Vocabulary of C11-C20 *)

\* the authenticated caller's user id
CallerId(c) ==
    CHOOSE i \in 1..Len(users) : users[i].email = c[1] /\ users[i].password = c[2]

\* how many requests for book b are Approved
ApprovedCount(b) ==
    Cardinality({i \in 1..Len(requests) :
                    requests[i].book_id = b /\ requests[i].status = "Approved"})

ApprovedResponse(r) ==
    /\ r.op = "approve_or_deny_request"
    /\ r.code = 200
    /\ r.detail = "Request approved successfully"

----------------------------------------------------------------------------
(* C11: a successful approve sets that request's status to Approved and    *)
(* lowers the counter of its book by 1, and changes no other request, book *)
(* or user; no other call changes a counter, so no counter ever rises.     *)
C11_OnlyApproveLowersCopies ==
    [][ /\ \A w \in Workers : Ends(w) =>
           \A c \in Credentials, r \in RequestIdPool :
             ( /\ Answered(w, approve_or_deny_request(c, r, "approve"))
               /\ ApprovedResponse(response') )
             => /\ requests' = [requests EXCEPT ![r].status = "Approved"]
                /\ books' = [books EXCEPT ![requests[r].book_id] = @ - 1]
                /\ users' = users
        /\ books' # books
           => \E w \in Workers, c \in Credentials, r \in RequestIdPool :
                 /\ Answered(w, approve_or_deny_request(c, r, "approve"))
                 /\ ApprovedResponse(response')
        /\ \A b \in DOMAIN books : books'[b] <= books[b]
        /\ OnlyAnswersWrite ]_vars

\* an approve has succeeded on book B while another request for it and the
\* counter of book A are as they were
C11_Witness ==
    /\ ApprovedResponse(response)
    /\ Len(requests) = 2
    /\ requests[1].book_id = BookB
    /\ requests[2].book_id = BookB
    /\ requests[1].status = "Pending"
    /\ requests[2].status = "Approved"
    /\ books[BookB] = InitialBooks[BookB] - 1
    /\ books[BookA] = InitialBooks[BookA]

----------------------------------------------------------------------------
(* C12: approve has no floor on the counter: an admin's approve of a        *)
(* Pending request that conflicts with no Approved one succeeds and lowers  *)
(* the counter also when it is already 0 or less, so that requests with     *)
(* disjoint intervals submitted while a copy was left, then all approved,   *)
(* take copies_available below 0.                                           *)
C12_ApproveHasNoFloor ==
    [][ \A r \in RequestIdPool :
          ( /\ r \in 1..Len(requests)
            /\ requests[r].status = "Pending"
            /\ books[requests[r].book_id] <= 0
            /\ ~ConflictsWithApproved(r) )
          => \A w \in Workers : Ends(w) =>
                \A c \in Credentials :
                ( /\ AuthenticatesAsAdmin(c)
                  /\ Answered(w, approve_or_deny_request(c, r, "approve")) )
                => /\ ApprovedResponse(response')
                   /\ books'[requests[r].book_id] = books[requests[r].book_id] - 1
                   /\ books'[requests[r].book_id] < 0 ]_vars

\* book A, of one copy, has two Approved requests with disjoint intervals
\* and a counter below 0
C12_Witness ==
    /\ ApprovedResponse(response)
    /\ InitialBooks[BookA] >= 1
    /\ books[BookA] < 0
    /\ Len(requests) = 2
    /\ \A i \in 1..2 : requests[i].book_id = BookA /\ requests[i].status = "Approved"
    /\ ~IntervalsOverlap(requests[1], requests[2])

----------------------------------------------------------------------------
(* C13: for an authenticated caller and an existing book with a copy left, *)
(* submit fails with the overlap error exactly when some Approved request  *)
(* for that book has start <= new end and end >= new start; Pending and    *)
(* Denied requests and requests for other books do not block it.           *)
C13_SubmitBlockedByApprovedOnly ==
    [][ \A b \in BookIdPool :
          (b \in DOMAIN books /\ books[b] > 0)
          => \A w \in Workers : Ends(w) =>
                \A c \in Credentials, d \in DateRanges :
                (Authenticates(c) /\ Answered(w, submit_request(c, b, d[1], d[2])))
                => ( OverlapError(response')
                     <=> \E j \in 1..Len(requests) :
                            /\ requests[j].book_id = b
                            /\ requests[j].status = "Approved"
                            /\ requests[j].start_date <= d[2]
                            /\ requests[j].end_date >= d[1] ) ]_vars

\* book B has a copy left, an Approved request and an overlapping Pending
\* request side by side, and a submit for it was refused for overlap
C13_Witness ==
    /\ response.op = "submit_request"
    /\ OverlapError(response)
    /\ books[BookB] > 0
    /\ Len(requests) = 2
    /\ requests[1].book_id = BookB /\ requests[1].status = "Approved"
    /\ requests[2].book_id = BookB /\ requests[2].status = "Pending"
    /\ IntervalsOverlap(requests[1], requests[2])

----------------------------------------------------------------------------
(* C14: a successful submit appends one request, at the next id, with      *)
(* status Pending, the caller as owner and the given book and dates, and   *)
(* changes no book, no earlier request and no user; a submit for a book id *)
(* that does not exist fails with 404 and adds nothing.                    *)
C14_SubmitAddsOnePending ==
    [][ /\ \A w \in Workers : Ends(w) =>
           \A c \in Credentials, b \in BookIdPool, d \in DateRanges :
             (Authenticates(c) /\ Answered(w, submit_request(c, b, d[1], d[2])))
             => /\ (response'.code = 201)
                   => /\ Len(requests') = Len(requests) + 1
                      /\ \A i \in 1..Len(requests) : requests'[i] = requests[i]
                      /\ requests'[Len(requests) + 1] =
                            [user_id |-> CallerId(c), book_id |-> b,
                             start_date |-> d[1], end_date |-> d[2],
                             status |-> "Pending"]
                      /\ books' = books
                      /\ users' = users
                /\ (b \notin DOMAIN books)
                   => /\ response'.code = 404
                      /\ response'.detail = "Book not found"
                      /\ UNCHANGED db
        /\ OnlyAnswersWrite ]_vars

\* the non-admin user's submit for book B succeeded behind an earlier
\* request: the new row is the second one, Pending, its own, with dates
\* that tell start from end
C14_Witness ==
    /\ response.op = "submit_request"
    /\ response.code = 201
    /\ Len(requests) = 2
    /\ Len(users) >= 2
    /\ requests[2] = [user_id |-> 2, book_id |-> BookB, start_date |-> 5,
                      end_date |-> 15, status |-> "Pending"]
    /\ books = InitialBooks

----------------------------------------------------------------------------
(* C15: the administrators are the same users in every state as at the     *)
(* start: no step changes the flag of a user that exists or removes a      *)
(* user, and a user added by create_user is no administrator.              *)
C15_AdminsNeverChange ==
    [][ /\ Len(users') >= Len(users)
        /\ \A i \in 1..Len(users') :
              users'[i].is_admin <=> (i <= Len(users) /\ users[i].is_admin) ]_vars

\* create_user has added a user, who is no administrator
C15_Witness ==
    /\ response.op = "create_user"
    /\ response.code = 201
    /\ Len(users) = Len(InitialUsers) + 1
    /\ ~users[Len(users)].is_admin

----------------------------------------------------------------------------
(* C16: for an administrator, an action string that is neither "approve"   *)
(* nor "deny" on an existing request fails with 400 "Invalid action" and   *)
(* changes no status and no counter, whatever the status of the request;   *)
(* a request id that does not exist fails with 404 whatever the action.    *)
C16_InvalidActionAndMissingRequest ==
    [][ \A w \in Workers : Ends(w) =>
        \A c \in Credentials, r \in RequestIdPool, a \in ActionPool :
          (AuthenticatesAsAdmin(c) /\ Answered(w, approve_or_deny_request(c, r, a)))
          => /\ (r \in 1..Len(requests) /\ a \notin {"approve", "deny"})
                => /\ response'.code = 400
                   /\ response'.detail = "Invalid action"
                   /\ UNCHANGED db
             /\ (r \notin 1..Len(requests))
                => /\ response'.code = 404
                   /\ response'.detail = "Request not found"
                   /\ UNCHANGED db ]_vars

\* an unknown action was refused on a request that is Approved, and the
\* request is Approved still
C16_Witness ==
    /\ response.op = "approve_or_deny_request"
    /\ response.code = 400
    /\ response.detail = "Invalid action"
    /\ response.prior = "Approved"
    /\ \E r \in 1..Len(requests) : requests[r].status = "Approved"

----------------------------------------------------------------------------
(* C17: an administrator's approve of a request that is Approved or Denied *)
(* fails with 400 "Request already processed" and changes nothing, so a    *)
(* counter is lowered at most once for each request; deny has no such      *)
(* guard: on an Approved request it succeeds, sets the status to Denied    *)
(* and leaves the counter as lowered.                                      *)
C17_ApproveGuardedDenyNot ==
    /\ [](\A b \in DOMAIN books :
            InitialBooks[b] - books[b]
            <= Cardinality({i \in 1..Len(requests) :
                  requests[i].book_id = b /\ requests[i].status # "Pending"}))
    /\ [][ \A r \in RequestIdPool :
             (r \in 1..Len(requests) /\ requests[r].status # "Pending")
             => \A w \in Workers : Ends(w) => \A c \in Credentials :
                  /\ ( /\ AuthenticatesAsAdmin(c)
                       /\ Answered(w, approve_or_deny_request(c, r, "approve")) )
                     => /\ response'.code = 400
                        /\ response'.detail = "Request already processed"
                        /\ UNCHANGED db
                  /\ ( /\ requests[r].status = "Approved"
                       /\ AuthenticatesAsAdmin(c)
                       /\ Answered(w, approve_or_deny_request(c, r, "deny")) )
                     => /\ response'.code = 200
                        /\ requests' = [requests EXCEPT ![r].status = "Denied"]
                        /\ books' = books ]_vars

\* a request was approved, then denied, then an approve of it was refused:
\* it is Denied and the counter of its book is one lower than at the start
C17_Witness ==
    /\ response.op = "approve_or_deny_request"
    /\ response.code = 400
    /\ response.detail = "Request already processed"
    /\ response.prior = "Denied"
    /\ Len(requests) = 1
    /\ requests[1].status = "Denied"
    /\ books[requests[1].book_id] = InitialBooks[requests[1].book_id] - 1

----------------------------------------------------------------------------
(* C18: exhaustion is permanent.  Once the counter of a book is 0 or less  *)
(* it stays 0 or less whatever is called, a deny included, and every       *)
(* submit for the book by an authenticated caller fails with 400           *)
(* "No copies available" and adds no request, whatever the dates.          *)
C18_ExhaustionIsPermanent ==
    [][ \A b \in BookIdPool :
          (b \in DOMAIN books /\ books[b] <= 0)
          => /\ books'[b] <= 0
             /\ \A w \in Workers : Ends(w) =>
                   \A c \in Credentials, d \in DateRanges :
                   (Authenticates(c) /\ Answered(w, submit_request(c, b, d[1], d[2])))
                   => /\ NoCopiesError(response')
                      /\ requests' = requests ]_vars

\* every request for book A has been denied again, its counter is still
\* 0 or less, and a submit for it was refused for want of copies
C18_Witness ==
    /\ response.op = "submit_request"
    /\ NoCopiesError(response)
    /\ books[BookA] <= 0
    /\ Len(requests) >= 1
    /\ \A i \in 1..Len(requests) :
          requests[i].book_id = BookA /\ requests[i].status = "Denied"

----------------------------------------------------------------------------
(* C19: with one call at a time, for every book the initial counter less   *)
(* the current counter is the number of approve calls that succeeded on    *)
(* the book; it is at least the number of requests for the book that are   *)
(* Approved now, and strictly more from the moment an Approved request of  *)
(* the book is denied.                                                     *)
C19_CopiesCountApprovals ==
    /\ [](\A b \in DOMAIN books :
            /\ InitialBooks[b] - books[b] = approvals[b]
            /\ InitialBooks[b] - books[b] >= ApprovedCount(b))
    /\ [][ \A b \in DOMAIN books :
             ( \/ InitialBooks[b] - books[b] > ApprovedCount(b)
               \/ \E r \in 1..Len(requests) :
                     /\ requests[r].book_id = b
                     /\ requests[r].status = "Approved"
                     /\ requests'[r].status = "Denied" )
             => InitialBooks[b] - books'[b] > ApprovedCount(b)' ]_vars

\* a deny has succeeded on an Approved request for book B while another
\* request for it is Approved: two approvals, two copies gone, one Approved
C19_Witness ==
    /\ response.op = "approve_or_deny_request"
    /\ response.code = 200
    /\ response.prior = "Approved"
    /\ response.detail = "Request denyd successfully"
    /\ approvals[BookB] = 2
    /\ InitialBooks[BookB] - books[BookB] = 2
    /\ ApprovedCount(BookB) = 1

----------------------------------------------------------------------------
(* C20: with the approve handler cut at its accesses to the store, when    *)
(* the approvals of two different Pending requests for one book, with      *)
(* disjoint intervals, have both succeeded and no handler is under way,    *)
(* the counter of the book is exactly 2 lower than at the start: no        *)
(* decrement is lost.                                                      *)
C20_NoDecrementLost ==
    \A i, j \in 1..Len(requests) :
        ( /\ i # j
          /\ requests[i].book_id = requests[j].book_id
          /\ requests[i].status = "Approved"
          /\ requests[j].status = "Approved"
          /\ ~IntervalsOverlap(requests[i], requests[j])
          /\ approvals[requests[i].book_id] = 2
          /\ \A w \in Workers : pc[w] = "idle" )
        => books[requests[i].book_id] = InitialBooks[requests[i].book_id] - 2

====
